---- MODULE Spec2Model ----
(***************************************************************************)
(* A model of sibackup.py: the one-way directory mirroring engine          *)
(* (sibackup, copy_folder, copy_file, StatHelper) over an abstract         *)
(* filesystem.                                                             *)
(*                                                                         *)
(* A path is a sequence of names; the filesystem `fs` is a function from   *)
(* the existing absolute paths to their nodes.  A node keeps what the      *)
(* program reads of os.stat(): the kind, st_size, st_mtime and the         *)
(* S_IWRITE bit of st_mode, plus `access`, the answer of the operating     *)
(* system to a probe ("ok", "nostat": os.stat raises PermissionError,      *)
(* "nolist": os.listdir raises PermissionError).  Creating, removing or    *)
(* renaming an entry needs the write and search bits of its directory;     *)
(* overwriting a file needs the write bit of the file.                     *)
(*                                                                         *)
(* The timers (info_data['time_spent']) and the log output are left out;   *)
(* every counter the engine keeps for files, folders and conflicts is in   *)
(* `info`.  The recursion of copy_folder is the explicit `stack`; the      *)
(* two for-loops advance one item per step, in any order (os.listdir and   *)
(* set() promise no order).                                                *)
(***************************************************************************)
EXTENDS Integers, Sequences, FiniteSets, TLC

\* Bounds of the model: file sizes are 0..MaxSize, mtimes 1..MaxMtime.
MaxSize == 2
MaxMtime == 2

Sizes == 0..MaxSize
Mtimes == 1..MaxMtime

----------------------------------------------------------------------------
\* Paths

source_path == <<"src">>
dest_path == <<"dst">>

Parent(p) == SubSeq(p, 1, Len(p) - 1)
Basename(p) == p[Len(p)]

\* p is q or an ancestor of q
IsPrefix(p, q) == Len(p) <= Len(q) /\ SubSeq(q, 1, Len(p)) = p

\* os.path.join(a, b): b replaces a when b is absolute
join(a, b) == IF b.abs THEN b.path ELSE a \o b.path

----------------------------------------------------------------------------
\* Nodes and the system calls the program makes

File(s, m, w) == [kind |-> "file", size |-> s, mtime |-> m, write |-> w, access |-> "ok"]
Dir(w) == [kind |-> "dir", size |-> 0, mtime |-> 0, write |-> w, access |-> "ok"]

Ok(f) == [err |-> "", fs |-> f]
Raise(e, f) == [err |-> e, fs |-> f]

\* os.path.exists: os.stat succeeded (False on any OSError)
exists(f, p) == p \in DOMAIN f /\ f[p].access # "nostat"

\* os.path.isdir
isdir(f, p) == exists(f, p) /\ f[p].kind = "dir"

Children(f, p) == {q \in DOMAIN f : Len(q) = Len(p) + 1 /\ IsPrefix(p, q)}

\* f without p and everything below it
RemoveTree(f, p) == [q \in {r \in DOMAIN f : ~IsPrefix(p, r)} |-> f[q]]

\* os.listdir(p): the names, or the error raised
listdir(f, p) ==
    IF p \notin DOMAIN f THEN [err |-> "FileNotFoundError", names |-> {}]
    ELSE IF f[p].kind # "dir" THEN [err |-> "NotADirectoryError", names |-> {}]
    ELSE IF f[p].access # "ok" THEN [err |-> "PermissionError", names |-> {}]
    ELSE [err |-> "", names |-> {Basename(q) : q \in Children(f, p)}]

\* Entries can be created in, removed from or renamed in the directory d: its
\* mode has the write bit and the search bit
CanModify(f, d) == f[d].write /\ f[d].access = "ok"

\* os.mkdir(p)
mkdir(f, p) ==
    IF p \in DOMAIN f /\ f[p].access = "nostat" THEN Raise("PermissionError", f)
    ELSE IF p \in DOMAIN f THEN Raise("FileExistsError", f)
    ELSE IF Parent(p) \notin DOMAIN f THEN Raise("FileNotFoundError", f)
    ELSE IF f[Parent(p)].kind # "dir" THEN Raise("NotADirectoryError", f)
    ELSE IF ~CanModify(f, Parent(p)) THEN Raise("PermissionError", f)
    ELSE Ok((p :> Dir(TRUE)) @@ f)

\* os.makedirs(p): every missing ancestor, then p
RECURSIVE makedirs(_, _)
makedirs(f, p) ==
    IF p \in DOMAIN f THEN Raise("FileExistsError", f)
    ELSE IF Len(p) > 1 /\ Parent(p) \notin DOMAIN f
    THEN LET r == makedirs(f, Parent(p))
         IN  IF r.err # "" THEN r ELSE mkdir(r.fs, p)
    ELSE mkdir(f, p)

\* os.chmod(p, stat.S_IWRITE): the mode becomes the owner's write bit alone,
\* which leaves a directory writable but no longer listable
WriteOnly(n) ==
    [n EXCEPT !.write = TRUE, !.access = IF n.kind = "dir" THEN "nolist" ELSE @]

chmod(f, p) ==
    IF p \notin DOMAIN f THEN Raise("FileNotFoundError", f)
    ELSE Ok([f EXCEPT ![p] = WriteOnly(@)])

\* os.remove(p)
remove(f, p) ==
    IF p \notin DOMAIN f THEN Raise("FileNotFoundError", f)
    ELSE IF f[p].kind = "dir" THEN Raise("IsADirectoryError", f)
    ELSE IF ~CanModify(f, Parent(p)) THEN Raise("PermissionError", f)
    ELSE Ok(RemoveTree(f, p))

\* What shutil.rmtree can remove: an entry whose directory is writable and,
\* for a directory with entries, one that can be listed and whose entries can
\* all be removed
RECURSIVE Removable(_, _)
Removable(f, q) ==
    /\ CanModify(f, Parent(q))
    /\ \/ Children(f, q) = {}
       \/ /\ f[q].access = "ok"
          /\ \A c \in Children(f, q) : Removable(f, c)

\* What shutil.rmtree(p) comes to: the entries below p whose directories, from
\* p on, can all be listed
Reached(f, p, q) ==
    \A k \in Len(p)..(Len(q) - 1) : f[SubSeq(q, 1, k)].access = "ok"

\* shutil.rmtree(p, onerror=remove_read_only): the handler sets S_IWRITE on
\* every entry an operation failed on and returns, so rmtree goes on and
\* raises nothing.
rmtree(f, p) ==
    LET below == {q \in DOMAIN f : IsPrefix(p, q) /\ Reached(f, p, q)}
        gone == {q \in below : Removable(f, q)}
    IN  Ok([q \in {r \in DOMAIN f : \A g \in gone : ~IsPrefix(g, r)} |->
               IF q \in below THEN WriteOnly(f[q]) ELSE f[q]])

\* shutil.copy2(s, d): content, times and mode bits of s; into d when d is a
\* directory
copy2(f, s, d) ==
    LET t == IF isdir(f, d) THEN d \o <<Basename(s)>> ELSE d
    IN  IF Parent(t) \notin DOMAIN f THEN Raise("FileNotFoundError", f)
        ELSE IF f[Parent(t)].kind # "dir" THEN Raise("NotADirectoryError", f)
        ELSE IF t \in DOMAIN f /\ f[t].kind = "dir" THEN Raise("IsADirectoryError", f)
        ELSE IF t \in DOMAIN f /\ ~f[t].write THEN Raise("PermissionError", f)
        ELSE IF t \notin DOMAIN f /\ ~CanModify(f, Parent(t)) THEN Raise("PermissionError", f)
        ELSE Ok((t :> File(f[s].size, f[s].mtime, f[s].write)) @@ f)

\* shutil.move(s, d): into d when d is a directory; shutil.Error when the
\* name is taken there or when s would move into itself
move(f, s, d) ==
    LET into == isdir(f, d)
        t == IF into THEN d \o <<Basename(s)>> ELSE d
        moved == {q \in DOMAIN f : IsPrefix(s, q)}
        Target(q) == t \o SubSeq(q, Len(s) + 1, Len(q))
    IN  IF into /\ t \in DOMAIN f /\ f[d].access = "ok" THEN Raise("Error", f)
        ELSE IF Parent(t) \notin DOMAIN f THEN Raise("FileNotFoundError", f)
        ELSE IF f[Parent(t)].kind # "dir" THEN Raise("NotADirectoryError", f)
        ELSE IF f[s].kind = "dir" /\ IsPrefix(s, t) THEN Raise("Error", f)
        ELSE IF ~CanModify(f, Parent(s)) \/ ~CanModify(f, Parent(t))
             THEN Raise("PermissionError", f)
        ELSE IF t \in DOMAIN f /\ f[t].kind # f[s].kind THEN Raise("NotADirectoryError", f)
        ELSE Ok([q \in ((DOMAIN f \ moved) \cup {Target(m) : m \in moved}) |->
                    IF IsPrefix(t, q)
                    THEN f[s \o SubSeq(q, Len(t) + 1, Len(q))]
                    ELSE f[q]])

\* StatHelper(p): one os.stat; "denied" leaves _exists and stats unset,
\* "missing" leaves stats unset
StatHelper(f, p) ==
    IF p \notin DOMAIN f THEN [state |-> "missing", stats |-> Dir(FALSE)]
    ELSE IF f[p].access = "nostat" THEN [state |-> "denied", stats |-> Dir(FALSE)]
    ELSE [state |-> "ok", stats |-> f[p]]

----------------------------------------------------------------------------
\* The state

VARIABLES
    fs,       \* the filesystem
    args,     \* the parsed command line
    info,     \* info_data: the counters of files, folders and conflicts
    pc,       \* "start": before sibackup(); "walk": inside copy_folder; "done"
    stack,    \* the calls of copy_folder in progress, innermost last
    status,   \* sibackup's status: its early return value, or what the first
              \* copy_folder call handed it (line 447); returned unless raised
    raised,   \* the exception that left sibackup(), "" when none did
    ops,      \* history: the system calls made and the files counted, so far
    last,     \* history: what the last step probed and decided
    vanish,   \* environment: the destination folders another process removes
              \* between the engine's existence check and its listing
    fs0,      \* history: the filesystem the run started from
    runs      \* history: the runs finished before this one

vars == <<fs, args, info, pc, stack, status, raised, ops, last, vanish, fs0, runs>>

\* info_data (lines 118-147), without the timers
info_data ==
    [num_processed |-> 0, num_copied |-> 0, size_copied |-> 0, num_skipped |-> 0,
     size_skipped |-> 0, not_copied |-> 0, num_created |-> 0, conflicts_resolved |-> 0]

Op(o, p) == [op |-> o, path |-> p, to |-> <<>>]
OpTo(o, p, t) == [op |-> o, path |-> p, to |-> t]

NoStat == [state |-> "missing", stats |-> Dir(FALSE)]
NoLast == [op |-> "none", path |-> <<>>, s |-> NoStat, d |-> NoStat, decision |-> "", depth |-> 0]
Last(o, p, dp) == [NoLast EXCEPT !.op = o, !.path = p, !.depth = dp]

\* One call of copy_folder(source_path, dest_path, archive_path, current_folder, depth)
Frame(folder, depth) ==
    [current_folder |-> folder, depth |-> depth, pc |-> "enter", res |-> 0,
     conflict_list |-> {}, source_list |-> {}]

Top == stack[Len(stack)]
SetTop(fr) == [stack EXCEPT ![Len(stack)] = fr]
Return(fr, v) == SetTop([fr EXCEPT !.pc = "return", !.res = v])

archive_path == join(dest_path, args.archivepath)
current_source_path(fr) == source_path \o fr.current_folder
current_dest_path(fr) == dest_path \o fr.current_folder
current_archive_path(fr) == archive_path \o fr.current_folder

Inc(i, k) == [i EXCEPT ![k] = @ + 1]

\* A step that stays inside the walk
Step(f, i, o, st, l) ==
    /\ fs' = f /\ info' = i /\ ops' = o /\ stack' = st /\ last' = l
    /\ UNCHANGED <<args, pc, status, raised, vanish, fs0, runs>>

\* An exception nothing catches: it leaves sibackup()
Crash(e, f, i, o, l) ==
    /\ fs' = f /\ info' = i /\ ops' = o /\ last' = l
    /\ pc' = "done" /\ raised' = e /\ stack' = <<>>
    /\ UNCHANGED <<args, status, vanish, fs0, runs>>

\* sibackup() returns v
Finish(v, f, i, o, l) ==
    /\ fs' = f /\ info' = i /\ ops' = o /\ last' = l
    /\ pc' = "done" /\ status' = v /\ stack' = <<>>
    /\ UNCHANGED <<args, raised, vanish, fs0, runs>>

----------------------------------------------------------------------------
\* sibackup(), lines 394-447: the checks before the walk, then the first call

ValidDepth(a) == \A d \in a.depth : d >= 0
ValidModes(a) == a.copymode \in {0, 1, 2, 3} /\ a.conflictmode \in {0, 1, 2}

\* lines 404-417 and 432-445: create a missing folder, or count it in simulate
EnsureFolder(f, i, o, p, needed) ==
    IF ~needed THEN [err |-> "", fs |-> f, info |-> i, ops |-> o]
    ELSE IF args.simulate
    THEN [err |-> "", fs |-> f, info |-> Inc(i, "num_created"), ops |-> o]
    ELSE LET r == makedirs(f, p)
         IN  [err |-> r.err, fs |-> r.fs,
              info |-> IF r.err = "" THEN Inc(i, "num_created") ELSE i,
              ops |-> o \cup {Op("makedirs", p)}]

sibackup ==
    /\ pc = "start"
    /\ LET l == Last("sibackup", <<>>, 0)
           d == EnsureFolder(fs, info, ops, dest_path, ~exists(fs, dest_path))
           a == EnsureFolder(d.fs, d.info, d.ops, archive_path,
                             args.conflictmode = 1 /\ ~exists(d.fs, archive_path))
       IN  IF ~exists(fs, source_path) THEN Finish(1, fs, info, ops, l)
           ELSE IF d.err = "PermissionError" THEN Finish(1, d.fs, d.info, d.ops, l)
           ELSE IF d.err # "" THEN Crash(d.err, d.fs, d.info, d.ops, l)
           ELSE IF ~ValidDepth(args) THEN Finish(1, d.fs, d.info, d.ops, l)
           ELSE IF ~ValidModes(args) THEN Finish(1, d.fs, d.info, d.ops, l)
           ELSE IF a.err = "PermissionError" THEN Finish(1, a.fs, a.info, a.ops, l)
           ELSE IF a.err # "" THEN Crash(a.err, a.fs, a.info, a.ops, l)
           ELSE /\ fs' = a.fs /\ info' = a.info /\ ops' = a.ops /\ last' = l
                /\ pc' = "walk" /\ stack' = <<Frame(<<>>, 0)>>
                /\ UNCHANGED <<args, status, raised, vanish, fs0, runs>>

----------------------------------------------------------------------------
\* copy_folder, lines 211-256: the depth check, the destination folder, the
\* two listings and the conflict list

\* Faulty variant: the depth limit taken as exclusive
TooDeep_exclusive(fr) == \E d \in args.depth : fr.depth >= d

\* lines 211-214
TooDeep(fr) == \E d \in args.depth : fr.depth > d

\* Faulty variant: the refused listing as the fatal signal
source_unlistable_fatal(fr) == Return(fr, 1)

\* lines 238-240: a source folder that cannot be listed ends this call
source_unlistable(fr) == Return(fr, 0)

\* Faulty variant: the refused mkdir as the fatal signal
dest_denied_fatal(fr) == Return(fr, 1)

\* lines 228-231: a destination folder that cannot be created ends this call
dest_denied(fr) == Return(fr, 0)

copy_folder_enter ==
    /\ pc = "walk" /\ Top.pc = "enter"
    /\ LET fr == Top
           csp == current_source_path(fr)
           cdp == current_dest_path(fr)
           l == Last("enter", fr.current_folder, fr.depth)
           create == ~exists(fs, cdp) /\ ~args.simulate
           mk == IF create THEN mkdir(fs, cdp) ELSE Ok(fs)
           o1 == IF create THEN ops \cup {Op("mkdir", cdp)} ELSE ops
           i1 == IF create /\ mk.err = "" THEN Inc(info, "num_created") ELSE info
           \* another process removes the folder before it is listed
           f2 == IF fr.current_folder \in vanish /\ cdp \in DOMAIN mk.fs
                 THEN RemoveTree(mk.fs, cdp) ELSE mk.fs
           sl == listdir(f2, csp)
           o2 == o1 \cup {Op("listdir", csp)}
           dl == listdir(f2, cdp)
           o3 == o2 \cup {Op("listdir", cdp)}
           dest_list == IF dl.err = "" THEN dl.names ELSE {}
       IN  IF TooDeep(fr) THEN Step(fs, info, ops, Return(fr, 0), Last("toodeep", fr.current_folder, fr.depth))
           ELSE IF mk.err = "PermissionError"
           THEN Step(mk.fs, i1, o1 \cup {Op("notcreated", cdp)}, dest_denied(fr), l)
           ELSE IF mk.err # "" THEN Crash(mk.err, mk.fs, i1, o1, l)
           ELSE IF sl.err = "PermissionError" THEN Step(f2, i1, o2, source_unlistable(fr), l)
           ELSE IF sl.err # "" THEN Crash(sl.err, f2, i1, o2, l)
           ELSE IF dl.err = "FileNotFoundError" /\ ~args.simulate
                THEN Step(f2, i1, o3, Return(fr, 1), l)
           ELSE IF dl.err \notin {"", "FileNotFoundError"} THEN Crash(dl.err, f2, i1, o3, l)
           ELSE Step(f2, i1, o3,
                     SetTop([fr EXCEPT !.pc = "loop",
                                       !.conflict_list = dest_list \ sl.names,
                                       !.source_list = sl.names]), l)

----------------------------------------------------------------------------
\* copy_folder, lines 259-325: one conflict item of the for-loop

\* lines 282-294: the archive subfolder of the current folder
archive_folder(f, i, o, cap) ==
    IF exists(f, cap) THEN [err |-> "", fs |-> f, info |-> i, ops |-> o]
    ELSE IF args.simulate
    THEN [err |-> "", fs |-> f, info |-> Inc(i, "num_created"), ops |-> o]
    ELSE LET r == makedirs(f, cap)
         IN  [err |-> r.err, fs |-> r.fs,
              info |-> IF r.err = "" THEN Inc(i, "num_created") ELSE i,
              ops |-> o \cup {Op("makedirs", cap)}]

\* line 280: the archive folder itself is not archived
is_archive_folder(conflict_item_path) == conflict_item_path = archive_path

\* lines 295-306
archive_conflict(f, i, o, cip, cap) ==
    IF args.simulate
    THEN [err |-> "", fs |-> f, info |-> Inc(i, "conflicts_resolved"), ops |-> o]
    ELSE LET r == move(f, cip, cap)
         IN  [err |-> r.err, fs |-> r.fs,
              info |-> IF r.err = "" THEN Inc(i, "conflicts_resolved") ELSE i,
              ops |-> o \cup {OpTo("move", cip, cap)}]

\* lines 309-325
delete_conflict(f, i, o, cip) ==
    IF args.simulate
    THEN [err |-> "", fs |-> f, info |-> Inc(i, "conflicts_resolved"), ops |-> o]
    ELSE LET r == IF isdir(f, cip) THEN rmtree(f, cip) ELSE remove(f, cip)
         IN  [err |-> r.err, fs |-> r.fs,
              info |-> IF r.err = "" THEN Inc(i, "conflicts_resolved") ELSE i,
              ops |-> o \cup {Op(IF isdir(f, cip) THEN "rmtree" ELSE "remove", cip)}]

\* lines 288-292: an archive subfolder that cannot be created ends this call
archive_denied(fr, next) == Return(fr, 0)

resolve_conflict ==
    /\ pc = "walk" /\ Top.pc = "loop" /\ Top.conflict_list # {}
    /\ \E conflict_item \in Top.conflict_list :
        LET fr == Top
            cip == current_dest_path(fr) \o <<conflict_item>>
            cap == current_archive_path(fr)
            st == StatHelper(fs, cip)
            l == [Last("conflict", cip, fr.depth) EXCEPT !.d = st]
            next == SetTop([fr EXCEPT !.conflict_list = @ \ {conflict_item}])
            \* lines 274-276: haswrite() reads stats; chmod also when simulating
            setw == st.state = "ok" /\ ~st.stats.write
            ch == IF setw THEN chmod(fs, cip) ELSE Ok(fs)
            o1 == IF setw THEN ops \cup {Op("chmod", cip)} ELSE ops
            af == archive_folder(ch.fs, info, o1, cap)
            ar == archive_conflict(af.fs, af.info, af.ops, cip, cap)
            de == delete_conflict(ch.fs, info, o1, cip)
            refused == {Op("refused", cip)}
        IN  IF args.conflictmode = 0
            THEN Step(fs, Inc(info, "conflicts_resolved"), ops, next, l)
            ELSE IF st.state # "ok" THEN Crash("AttributeError", fs, info, ops, l)
            ELSE IF args.conflictmode = 1
            THEN IF is_archive_folder(cip) THEN Step(ch.fs, info, o1, next, l)
                 ELSE IF af.err = "PermissionError"
                 THEN Step(af.fs, af.info, af.ops \cup refused, archive_denied(fr, next), l)
                 ELSE IF af.err # "" THEN Crash(af.err, af.fs, af.info, af.ops, l)
                 ELSE IF ar.err = "PermissionError"
                 THEN Step(ar.fs, ar.info, ar.ops \cup refused, next, l)
                 ELSE IF ar.err = "" THEN Step(ar.fs, ar.info, ar.ops, next, l)
                 ELSE Crash(ar.err, ar.fs, ar.info, ar.ops, l)
            ELSE IF de.err = "PermissionError"
                 THEN Step(de.fs, de.info, de.ops \cup refused, next, l)
                 ELSE IF de.err = "" THEN Step(de.fs, de.info, de.ops, next, l)
                 ELSE Crash(de.err, de.fs, de.info, de.ops, l)

----------------------------------------------------------------------------
\* copy_folder, lines 328-388: one source item of the for-loop

\* Faulty variant: a copy only when the source is the newer one
copy_decision_newer(s, d, copymode) ==
    IF d.state # "ok" \/ copymode = 0 THEN "copy"
    ELSE IF copymode >= 1 /\ s.stats.mtime > d.stats.mtime THEN "copy"
    ELSE IF copymode >= 2 /\ s.stats.size # d.stats.size THEN "copy"
    ELSE IF copymode = 3 THEN "pass"
    ELSE "skip"

\* lines 360-387: "copy" calls copy_file, "skip" counts the file as skipped,
\* "pass" is the branch of copy mode 3 (hash checking, not implemented)
copy_decision(s, d, copymode) ==
    IF d.state # "ok" \/ copymode = 0 THEN "copy"
    ELSE IF copymode >= 1 /\ ~(s.stats.mtime = d.stats.mtime) THEN "copy"
    ELSE IF copymode >= 2 /\ s.stats.size # d.stats.size THEN "copy"
    ELSE IF copymode = 3 THEN "pass"
    ELSE "skip"

\* Faulty variant: a copy that failed is counted as copied
copy_file_counted(f, i, o, sp, s, dp) ==
    LET r == copy2(f, sp, dp)
    IN  [err |-> IF args.simulate THEN "" ELSE r.err,
         fs |-> IF args.simulate THEN f ELSE r.fs,
         ops |-> IF args.simulate THEN o ELSE o \cup {OpTo("copy2", sp, dp)},
         info |-> [i EXCEPT !.num_copied = @ + 1, !.size_copied = @ + s.stats.size]]

\* copy_file, lines 183-203
copy_file(f, i, o, sp, s, dp) ==
    IF args.simulate
    THEN [err |-> "", fs |-> f, ops |-> o,
          info |-> [i EXCEPT !.num_copied = @ + 1, !.size_copied = @ + s.stats.size]]
    ELSE LET r == copy2(f, sp, dp)
         IN  [err |-> r.err, fs |-> r.fs, ops |-> o \cup {OpTo("copy2", sp, dp)},
              info |-> IF r.err = ""
                       THEN [i EXCEPT !.num_copied = @ + 1, !.size_copied = @ + s.stats.size]
                       ELSE IF r.err \in {"PermissionError", "FileNotFoundError"}
                       THEN Inc(i, "not_copied")
                       ELSE i]

\* lines 383-387
skip_file(i, s) == [i EXCEPT !.num_skipped = @ + 1, !.size_skipped = @ + s.stats.size]

\* Faulty variant: the refused probe as the fatal signal
source_denied_fatal(fr) == Return(fr, 1)

\* lines 338-340: a source item that cannot be probed ends this call
source_denied(fr) == Return(fr, 0)

process_item ==
    /\ pc = "walk" /\ Top.pc = "loop" /\ Top.conflict_list = {} /\ Top.source_list # {}
    /\ \E source_item \in Top.source_list :
        LET fr == Top
            sip == current_source_path(fr) \o <<source_item>>
            dip == current_dest_path(fr) \o <<source_item>>
            s == StatHelper(fs, sip)
            d == StatHelper(fs, dip)
            next == SetTop([fr EXCEPT !.source_list = @ \ {source_item}])
            dec == copy_decision(s, d, args.copymode)
            l == [Last("file", sip, fr.depth) EXCEPT !.s = s, !.d = d, !.decision = dec]
            cf == copy_file(fs, info, ops, sip, s, dip)
            done == {Op("processed", sip)}
        IN  IF s.state = "denied"
            THEN Step(fs, info,
                      ops \cup {Op("denied", sip)}
                          \cup {Op("abandoned", current_source_path(fr) \o <<x>>) :
                                    x \in fr.source_list \ {source_item}},
                      source_denied(fr),
                      [Last("denied", sip, fr.depth) EXCEPT !.s = s])
            ELSE IF s.state = "missing"
            THEN Crash("AttributeError", fs, info, ops, Last("gone", sip, fr.depth))
            ELSE IF s.stats.kind = "dir"
            THEN Step(fs, info, ops,
                      next \o <<Frame(fr.current_folder \o <<source_item>>, fr.depth + 1)>>,
                      [Last("dir", sip, fr.depth) EXCEPT !.s = s])
            ELSE IF d.state = "denied" THEN Crash("AttributeError", fs, info, ops, l)
            ELSE IF dec = "copy"
            THEN IF cf.err = ""
                 THEN Step(cf.fs, Inc(cf.info, "num_processed"), cf.ops \cup done, next, l)
                 ELSE IF cf.err \in {"PermissionError", "FileNotFoundError"}
                 THEN Step(cf.fs, Inc(cf.info, "num_processed"),
                           cf.ops \cup done \cup {Op("notcopied", sip)}, next, l)
                 ELSE Crash(cf.err, cf.fs, cf.info, cf.ops, l)
            ELSE IF dec = "pass"
            THEN Step(fs, Inc(info, "num_processed"), ops \cup done, next, l)
            ELSE Step(fs, Inc(skip_file(info, s), "num_processed"), ops \cup done, next, l)

----------------------------------------------------------------------------
\* copy_folder returns (lines 214, 231, 240, 253, 292, 340, 349, 390), and its
\* caller goes on: lines 346-349 in copy_folder, 447-542 in sibackup

\* sibackup(), lines 463-485: the report divides by the bytes copied and
\* skipped as soon as a file was copied or skipped
report(i) ==
    IF (i.num_copied # 0 \/ i.num_skipped # 0) /\ i.size_copied + i.size_skipped = 0
    THEN "ZeroDivisionError" ELSE ""

copy_folder_return ==
    /\ pc = "walk"
    /\ \/ Top.pc = "return"
       \/ Top.pc = "loop" /\ Top.conflict_list = {} /\ Top.source_list = {}
    /\ LET res == IF Top.pc = "return" THEN Top.res ELSE 0
           l == [Last("return", Top.current_folder, Top.depth) EXCEPT !.decision = ToString(res)]
           rest == SubSeq(stack, 1, Len(stack) - 1)
           caller == rest[Len(rest)]
       IN  IF rest = <<>>
           THEN /\ pc' = "done" /\ status' = res /\ raised' = report(info)
                /\ stack' = <<>> /\ last' = l
                /\ UNCHANGED <<fs, info, ops, args, vanish, fs0, runs>>
           ELSE IF res # 0
           THEN Step(fs, info, ops,
                     [rest EXCEPT ![Len(rest)] = [caller EXCEPT !.pc = "return", !.res = res]], l)
           ELSE Step(fs, info, ops, rest, l)

----------------------------------------------------------------------------
\* The runs checked: trees and command lines around the defaults of the
\* argument parser (lines 571-585)

\* Depth limits tried: none, and 0..MaxDepthLimit
MaxDepthLimit == 2

DefaultArchive == [abs |-> FALSE, path |-> <<"!!archive">>]
NestedArchive == [abs |-> FALSE, path |-> <<"x", "!!archive">>]
OutsideArchive == [abs |-> TRUE, path |-> <<"ext">>]

DefaultArgs ==
    [simulate |-> FALSE, copymode |-> 2, conflictmode |-> 2, depth |-> {},
     archivepath |-> DefaultArchive]

S(rel) == source_path \o rel
D(rel) == dest_path \o rel

Nothing == [p \in {} |-> Dir(TRUE)]
Opt(e) == {Nothing, e}

\* The filesystem root and the source folder; with the destination folder
NoDest == (<<>> :> Dir(TRUE)) @@ (source_path :> Dir(TRUE))
Base == NoDest @@ (dest_path :> Dir(TRUE))

Plain == File(1, 1, TRUE)

Scenario(f, a, v) == [fs |-> f, args |-> a, vanish |-> v]

\* One file, every combination of sizes and mtimes, every copy mode
CopyScenarios ==
    {Scenario(Base @@ (S(<<"a">>) :> File(s, m, TRUE)) @@ d
                   @@ (S(<<"b">>) :> Plain) @@ (D(<<"b">>) :> Plain),
              [DefaultArgs EXCEPT !.copymode = cm, !.simulate = sim], {}) :
        s \in Sizes, m \in Mtimes, cm \in 0..3, sim \in BOOLEAN,
        d \in {Nothing, D(<<"a">>) :> Dir(TRUE)}
              \cup {D(<<"a">>) :> File(s2, m2, TRUE) : s2 \in Sizes, m2 \in Mtimes}}

\* The folders of an archive path that sibackup would have to create
ArchiveDirs(ap) ==
    LET p == join(dest_path, ap)
    IN  [q \in {SubSeq(p, 1, k) : k \in 1..Len(p)} \ DOMAIN Base |-> Dir(TRUE)]

ArchiveTrees(ap) ==
    {Nothing, ArchiveDirs(ap),
     ArchiveDirs(ap) @@ (join(dest_path, ap) \o <<"c">> :> Plain)}

\* Destination-only entries at the top level, every conflict mode and
\* archive path, the archive missing, empty or holding an entry named c
ConflictScenarios ==
    UNION {
        {Scenario(Base @@ (S(<<"a">>) :> Plain) @@ a @@ c @@ e @@ t,
                  [DefaultArgs EXCEPT !.conflictmode = cm, !.simulate = sim,
                                      !.archivepath = ap], {}) :
            a \in Opt(D(<<"a">>) :> Plain),
            c \in {Nothing, D(<<"c">>) :> Plain, D(<<"c">>) :> File(1, 1, FALSE),
                   (D(<<"c">>) :> Dir(TRUE)) @@ (D(<<"c", "a">>) :> Plain)},
            e \in Opt(D(<<"e">>) :> Plain),
            t \in ArchiveTrees(ap),
            cm \in 0..2, sim \in BOOLEAN} :
        ap \in {DefaultArchive, NestedArchive, OutsideArchive}}

DepthLimits == {{}} \cup {{k} : k \in 0..MaxDepthLimit}

\* Folders two levels deep, the destination with or without them and with
\* entries of its own at each level, every depth limit and conflict mode
DepthScenarios ==
    {Scenario(Base @@ a @@ (S(<<"d">>) :> Dir(TRUE)) @@ (S(<<"d", "a">>) :> Plain) @@ sdd @@ dd,
              [DefaultArgs EXCEPT !.depth = dl, !.conflictmode = cm, !.simulate = sim], {}) :
        a \in Opt(S(<<"a">>) :> Plain),
        sdd \in {Nothing, S(<<"d", "d">>) :> Dir(TRUE),
                 (S(<<"d", "d">>) :> Dir(TRUE)) @@ (S(<<"d", "d", "a">>) :> Plain)},
        dd \in {Nothing} \cup
               {(D(<<"d">>) :> Dir(TRUE)) @@ da @@ dc @@ ddd :
                    da \in Opt(D(<<"d", "a">>) :> Plain),
                    dc \in {Nothing, D(<<"d", "c">>) :> Plain,
                            (D(<<"d", "c">>) :> Dir(TRUE)) @@ (D(<<"d", "c", "a">>) :> Plain)},
                    ddd \in {Nothing, D(<<"d", "d">>) :> Dir(TRUE),
                             (D(<<"d", "d">>) :> Dir(TRUE)) @@ (D(<<"d", "d", "c">>) :> Plain)}},
        dl \in DepthLimits, cm \in 0..2, sim \in BOOLEAN}

\* f with the probe of p answered by acc, and with p read-only
Deny(f, p, acc) == IF p \in DOMAIN f THEN [f EXCEPT ![p].access = acc] ELSE f
ReadOnly(f, p) == IF p \in DOMAIN f THEN [f EXCEPT ![p].write = FALSE] ELSE f

\* A path no tree holds
Nowhere == <<"nowhere">>

SourceTree ==
    (S(<<"a">>) :> Plain) @@ (S(<<"b">>) :> Plain) @@ (S(<<"d">>) :> Dir(TRUE))
    @@ (S(<<"d", "a">>) :> Plain) @@ (S(<<"d", "b">>) :> Plain)

DestTree ==
    (D(<<"a">>) :> File(1, 2, TRUE)) @@ (D(<<"c">>) :> Plain) @@ (D(<<"d">>) :> Dir(TRUE))
    @@ (D(<<"d", "c">>) :> Plain)

\* One entry the operating system refuses to probe, list or write, at most
\* one of each kind
PermissionScenarios ==
    {Scenario(ReadOnly(Deny(t, sp[1], sp[2]), ro),
              [DefaultArgs EXCEPT !.conflictmode = cm, !.simulate = sim, !.depth = dl], {}) :
        t \in {NoDest @@ SourceTree, Base @@ SourceTree, Base @@ SourceTree @@ DestTree},
        sp \in {<<Nowhere, "ok">>, <<source_path, "nolist">>, <<S(<<"a">>), "nostat">>,
                <<S(<<"d">>), "nostat">>, <<S(<<"d">>), "nolist">>, <<S(<<"d", "a">>), "nostat">>,
                <<D(<<"a">>), "nostat">>, <<D(<<"c">>), "nostat">>},
        ro \in {Nowhere, <<>>, dest_path, D(<<"a">>), D(<<"d">>)},
        dl \in {{}, {0}, {1}}, cm \in 0..2, sim \in BOOLEAN}

\* An archive folder outside the destination, writable or read-only, with or
\* without the subfolder of d
ArchiveDeniedScenarios ==
    {Scenario(ReadOnly(Base @@ SourceTree @@ DestTree @@ (D(<<"e">>) :> Plain)
                            @@ (OutsideArchive.path :> Dir(TRUE)) @@ ad, ro),
              [DefaultArgs EXCEPT !.conflictmode = cm, !.simulate = sim,
                                  !.archivepath = OutsideArchive], {}) :
        ad \in Opt(OutsideArchive.path \o <<"d">> :> Dir(TRUE)),
        ro \in {Nowhere, OutsideArchive.path, OutsideArchive.path \o <<"d">>},
        cm \in 1..2, sim \in BOOLEAN}

\* Command lines sibackup() refuses, and a missing source folder
InvalidArgs ==
    {[DefaultArgs EXCEPT !.depth = {-1}], [DefaultArgs EXCEPT !.copymode = -1],
     [DefaultArgs EXCEPT !.copymode = 4], [DefaultArgs EXCEPT !.conflictmode = -1],
     [DefaultArgs EXCEPT !.conflictmode = 3]}

InvalidScenarios ==
    {Scenario(t @@ (S(<<"a">>) :> Plain), [a EXCEPT !.simulate = sim], {}) :
        t \in {NoDest, Base, ReadOnly(NoDest, <<>>)}, a \in InvalidArgs, sim \in BOOLEAN}
    \cup {Scenario((<<>> :> Dir(TRUE)), [DefaultArgs EXCEPT !.simulate = sim], {}) :
            sim \in BOOLEAN}

\* A destination folder removed by another process while the engine runs,
\* and a destination entry of another kind than the source entry
RaceScenarios ==
    {Scenario(Base @@ (S(<<"a">>) :> File(s, 1, TRUE)) @@ (S(<<"d">>) :> Dir(TRUE))
                   @@ (S(<<"d", "a">>) :> Plain) @@ (S(<<"e">>) :> Dir(TRUE)) @@ d,
              [DefaultArgs EXCEPT !.simulate = sim], v) :
        s \in Sizes,
        d \in {Nothing, D(<<"d">>) :> Dir(TRUE), D(<<"d">>) :> Plain},
        v \in {{}, {<<>>}, {<<"d">>}}, sim \in BOOLEAN}

Scenarios ==
    CopyScenarios \cup ConflictScenarios \cup DepthScenarios \cup PermissionScenarios
    \cup ArchiveDeniedScenarios \cup InvalidScenarios \cup RaceScenarios

Init ==
    \E sc \in Scenarios :
        /\ fs = sc.fs /\ fs0 = sc.fs /\ args = sc.args /\ vanish = sc.vanish
        /\ info = info_data /\ pc = "start" /\ stack = <<>>
        /\ status = 0 /\ raised = "" /\ ops = {} /\ last = NoLast /\ runs = <<>>

Next ==
    \/ sibackup
    \/ copy_folder_enter
    \/ resolve_conflict
    \/ process_item
    \/ copy_folder_return

Spec == Init /\ [][Next]_vars

\* A second run of the program on the tree the first run started from, with
\* the same command line but for --simulate
rerun ==
    /\ pc = "done" /\ runs = <<>>
    /\ runs' = <<[simulate |-> args.simulate, info |-> info, status |-> status,
                  raised |-> raised, fs |-> fs]>>
    /\ args' = [args EXCEPT !.simulate = ~@]
    /\ fs' = fs0 /\ info' = info_data /\ pc' = "start" /\ stack' = <<>>
    /\ status' = 0 /\ raised' = "" /\ ops' = {} /\ last' = NoLast
    /\ UNCHANGED <<vanish, fs0>>

NextPair == Next \/ rerun

SpecPair == Init /\ [][NextPair]_vars

----------------------------------------------------------------------------
\* What the claims speak of

Done == pc = "done"

\* sibackup() returned a status: no exception left it
Returned == pc = "done" /\ raised = ""

\* The first copy_folder call returned to sibackup (line 447)
WalkReturned == pc = "done" /\ last.op = "return"

\* No entry is read-only or refuses a probe, and no other process interferes
NoHindrance == vanish = {} /\ \A p \in DOMAIN fs0 : fs0[p].write /\ fs0[p].access = "ok"

\* The folder depth of an entry below root: 0 for the entries of root itself
DepthBelow(root, p) == Len(p) - Len(root) - 1

SourceFiles == {p \in DOMAIN fs0 : IsPrefix(source_path, p) /\ fs0[p].kind = "file"}

Processed(p) == Op("processed", p) \in ops

----------------------------------------------------------------------------
\* C1: in simulate mode a run changes nothing in the filesystem: contents,
\* directory structure and permission bits of every entry stay as they were
\* (no other process interfering).
C1_SimulateMutatesNothing ==
    (args.simulate /\ vanish = {}) => fs = fs0

----------------------------------------------------------------------------
\* The reference policy of C3, from the destination's existence, the mtimes
\* and the sizes
ReferenceCopy(s, d, copymode) ==
    \/ d.state = "missing"
    \/ copymode = 0
    \/ copymode = 1 /\ s.stats.mtime # d.stats.mtime
    \/ copymode = 2 /\ (s.stats.mtime # d.stats.mtime
                        \/ (s.stats.mtime = d.stats.mtime /\ s.stats.size # d.stats.size))

\* C3: in copy modes 0 (always), 1 (by mtime) and 2 (by mtime, then size)
\* every source file is handed to copy_file exactly when the reference policy
\* says copy (destination missing; mode 0; mtimes differ, also when the
\* destination is newer; mode 2 and sizes differ), and is counted as skipped
\* otherwise.
C3_CopyDecision ==
    [][(last'.op = "file" /\ raised' = "" /\ args.copymode \in {0, 1, 2}) =>
          LET copied == info'.num_copied + info'.not_copied
                            = info.num_copied + info.not_copied + 1
              skipped == info'.num_skipped = info.num_skipped + 1
              called == \E o \in ops' \ ops : o.op = "copy2" /\ o.path = last'.path
          IN  IF ReferenceCopy(last'.s, last'.d, args.copymode)
              THEN copied /\ ~skipped /\ (called <=> ~args.simulate)
              ELSE skipped /\ ~copied /\ ~called]_vars

\* A file whose destination is newer was copied in mode 1
C3_Witness ==
    /\ last.op = "file" /\ args.copymode = 1 /\ last.d.state = "ok"
    /\ last.d.stats.mtime > last.s.stats.mtime
    /\ info.num_copied = 1 /\ ~args.simulate

----------------------------------------------------------------------------
\* C4: in copy mode 3 a source file whose destination has the same mtime and
\* the same size is handled as a skip: it is not copied, and num_skipped and
\* size_skipped count it, together with num_processed.
C4_Mode3CountsSkip ==
    [][(/\ last'.op = "file" /\ raised' = "" /\ args.copymode = 3
        /\ last'.d.state = "ok"
        /\ last'.d.stats.mtime = last'.s.stats.mtime
        /\ last'.d.stats.size = last'.s.stats.size) =>
          /\ info'.num_copied = info.num_copied
          /\ info'.num_processed = info.num_processed + 1
          /\ info'.num_skipped = info.num_skipped + 1
          /\ info'.size_skipped = info.size_skipped + last'.s.stats.size]_vars

----------------------------------------------------------------------------
\* C10: an invalid command line (depth < 0, copy mode outside 0..3, conflict
\* mode outside 0..2) ends the run with status 1 before it starts: copy_folder
\* is not called, nothing in the filesystem has changed (a missing destination
\* folder is not created) and no counter has changed.
C10_InvalidArgsAbortFirst ==
    (Done /\ exists(fs0, source_path) /\ ~(ValidDepth(args) /\ ValidModes(args))) =>
        /\ raised = "" /\ status = 1
        /\ last.op = "sibackup"
        /\ fs = fs0
        /\ info = info_data

----------------------------------------------------------------------------
\* C2: a simulate run and a real run from the same tree with the same
\* command line end with the same counters (here: on trees without read-only
\* or unreadable entries, both runs returning).
C2_SameCounters ==
    (Returned /\ Len(runs) = 1 /\ runs[1].raised = "" /\ NoHindrance) =>
        runs[1].info = info

----------------------------------------------------------------------------
\* Entries of the two trees, the archive apart
InTrees(q) ==
    /\ IsPrefix(source_path, q) \/ IsPrefix(dest_path, q)
    /\ ~IsPrefix(archive_path, q)

Same(q) == (q \in DOMAIN fs <=> q \in DOMAIN fs0) /\ (q \in DOMAIN fs => fs[q] = fs0[q])

Deep(d) == {q \in DOMAIN fs \cup DOMAIN fs0 : InTrees(q) /\ Len(q) - 2 > d}

ShallowFilesProcessed(d) ==
    \A p \in SourceFiles : DepthBelow(source_path, p) <= d => Processed(p)

WentWithConflict(q, d) ==
    /\ q \in DOMAIN fs0
    /\ \E o \in ops :
        /\ o.op \in {"move", "rmtree"}
        /\ IsPrefix(o.path, q) /\ o.path # q
        /\ DepthBelow(dest_path, o.path) <= d
        /\ source_path \o SubSeq(o.path, 2, Len(o.path)) \notin DOMAIN fs0

----------------------------------------------------------------------------
\* The destination-only files of the levels the run visited
DestOnlyFiles ==
    {q \in DOMAIN fs0 :
        /\ IsPrefix(dest_path, q) /\ q # dest_path
        /\ fs0[q].kind = "file"
        /\ source_path \o SubSeq(q, 2, Len(q)) \notin DOMAIN fs0
        /\ Op("listdir", Parent(q)) \in ops}

Archived(q) == archive_path \o SubSeq(q, 2, Len(q))

\* The archive folder lies outside the destination folder or directly in it
ArchiveDirect == args.archivepath.abs \/ Len(args.archivepath.path) = 1

\* C6: after a real run without permission failures every destination-only
\* file of a visited level is gone (delete mode), is gone and lies under the
\* archive at the same relative path (archive mode), or is untouched (ignore
\* mode), and each one has raised conflicts_resolved by one (here: with the
\* archive folder outside the destination folder or directly in it).
C6_ConflictsResolved ==
    (Done /\ ~args.simulate /\ NoHindrance /\ ValidModes(args) /\ ArchiveDirect) =>
        /\ \A q \in DestOnlyFiles :
            CASE args.conflictmode = 2 -> q \notin DOMAIN fs
              [] args.conflictmode = 1 ->
                    /\ q \notin DOMAIN fs
                    /\ Archived(q) \in DOMAIN fs /\ fs[Archived(q)] = fs0[q]
              [] OTHER -> q \in DOMAIN fs /\ fs[q] = fs0[q]
        /\ info.conflicts_resolved >= Cardinality(DestOnlyFiles)

----------------------------------------------------------------------------
\* C7: in archive mode no move of the archive folder into the archive
\* folder is made or attempted, wherever the archive path lies: nothing that
\* is, or holds, the archive folder is handed to shutil.move.
C7_ArchiveNeverMoved ==
    \A o \in ops : o.op = "move" => ~IsPrefix(o.path, archive_path)

----------------------------------------------------------------------------
Denied == {o \in ops : o.op = "denied"}

----------------------------------------------------------------------------
RootUnlistable ==
    /\ source_path \in DOMAIN fs0 /\ fs0[source_path].access = "nolist"
    /\ Op("listdir", source_path) \in ops

\* C9 as claimed: when the source folder itself cannot be listed, the run
\* aborts with a non-zero status and no file is processed.
C9_Original ==
    (Done /\ RootUnlistable) => (raised = "" /\ status # 0 /\ info.num_processed = 0)

\* C9 as amended: when the source folder itself cannot be listed, the first
\* copy_folder call returns 0 and the run ends with status 0; no file is
\* processed, copied or skipped and no conflict is resolved.
C9_RootUnlistableSkips ==
    (Done /\ RootUnlistable) =>
        /\ raised = "" /\ status = 0
        /\ info.num_processed = 0 /\ info.num_copied = 0 /\ info.num_skipped = 0
        /\ info.not_copied = 0 /\ info.conflicts_resolved = 0
        /\ \A o \in ops : o.op \notin {"processed", "copy2", "move", "remove", "rmtree", "chmod"}

\* The run ended after the refused listing, with destination entries that
\* were neither compared nor resolved
C9_Witness ==
    /\ Done /\ RootUnlistable /\ ~args.simulate
    /\ D(<<"c">>) \in DOMAIN fs /\ D(<<"a">>) \in DOMAIN fs

----------------------------------------------------------------------------
\* The conflicts whose resolution met a PermissionError (archive subfolder,
\* move or deletion)
Refused == {o \in ops : o.op = "refused"}

\* The conflicts and the source files of the folder the conflict p lies in
ConflictsBeside(p) ==
    {q \in DOMAIN fs0 :
        /\ Parent(q) = Parent(p) /\ q # p /\ q # archive_path
        /\ source_path \o SubSeq(q, 2, Len(q)) \notin DOMAIN fs0}

SourceFilesBeside(p) ==
    {q \in SourceFiles : Parent(q) = source_path \o SubSeq(Parent(p), 2, Len(p) - 1)}

Attempted(q) == \E o \in ops : o.op \in {"move", "remove", "rmtree"} /\ o.path = q

\* C11: a permission failure while one conflict is resolved (creating the
\* archive subfolder, moving the item, deleting it) is local to that conflict:
\* in a real run that returns, the other conflicts of the folder are still
\* taken up, every source file of the folder is still processed, and the
\* status is 0 (no source probe being refused, no other process interfering).
C11_ConflictFailureLocal ==
    (Returned /\ ~args.simulate /\ Denied = {} /\ vanish = {}) =>
        \A o \in Refused :
            /\ status = 0
            /\ \A q \in ConflictsBeside(o.path) : Attempted(q)
            /\ \A p \in SourceFilesBeside(o.path) : Processed(p)

----------------------------------------------------------------------------
\* The source files whose copy was refused, and the destination folders
\* whose creation was refused
NotCopied == {o.path : o \in {x \in ops : x.op = "notcopied"}}

NotCreated == {o.path : o \in {x \in ops : x.op = "notcreated"}}

SiblingFiles(p) == {q \in SourceFiles : Parent(q) = Parent(p)}

\* The source folder a destination folder mirrors
SourceOf(q) == source_path \o SubSeq(q, 2, Len(q))

\* C12: a PermissionError on one file copy or on the creation of one
\* destination subfolder is not fatal.  The failed copy raises not_copied by
\* one, leaves num_copied and size_copied as they were and still raises
\* num_processed; the failed mkdir makes copy_folder return 0 for that subtree
\* alone; and when the walk is through (no source probe being refused, no
\* other process interfering) all the other files of the folder have been
\* processed and the status of the run is 0.
C12_CopyAndMkdirFailuresLocal ==
    [][
        /\ (Op("notcopied", last'.path) \in ops' \ ops) =>
            /\ info'.not_copied = info.not_copied + 1
            /\ info'.num_copied = info.num_copied
            /\ info'.size_copied = info.size_copied
            /\ info'.num_processed = info.num_processed + 1
            /\ raised' = "" /\ pc' = "walk" /\ Top'.pc = "loop"
        /\ (last'.op = "enter" /\ NotCreated' # NotCreated /\ pc' = "walk") =>
            (Top'.pc = "return" /\ Top'.res = 0 /\ info' = info)
        /\ (WalkReturned' /\ Denied' = {} /\ vanish = {}) =>
            /\ (NotCopied' # {} \/ NotCreated' # {}) => status' = 0
            /\ \A p \in NotCopied' : \A q \in SiblingFiles(p) : Processed(q)'
            /\ \A d \in NotCreated' :
                    /\ \A q \in SourceFiles :
                            /\ Parent(q) = Parent(SourceOf(d)) => Processed(q)'
                            /\ IsPrefix(SourceOf(d), q) => ~Processed(q)'
    ]_vars

\* A read-only destination folder: both copies into it and the creation of
\* its subfolder were refused, the files were counted, the run returned 0
C12_Witness ==
    /\ Returned /\ status = 0 /\ ~args.simulate
    /\ info.not_copied = 2 /\ info.num_copied = 0 /\ info.num_processed = 2
    /\ NotCopied = {S(<<"a">>), S(<<"b">>)}
    /\ NotCreated = {D(<<"d">>)}

----------------------------------------------------------------------------
\* The fatal signal is on its way up: the innermost call returns 1
Fatal == pc = "walk" /\ Top.pc = "return" /\ Top.res = 1

\* C13: in a real run a destination folder that is gone when it is listed
\* makes copy_folder return 1; from then on every enclosing call returns 1 at
\* once (nothing more is probed, copied, entered or resolved at any level) and
\* sibackup returns 1.  In a simulate run the folder is taken as empty and the
\* walk goes on.
C13_FatalPropagates ==
    [][
        /\ (/\ last'.op = "enter" /\ pc' = "walk"
            /\ Op("listdir", dest_path \o last'.path) \in ops' \ ops
            /\ dest_path \o last'.path \notin DOMAIN fs') =>
                IF args.simulate
                THEN Top'.pc = "loop" /\ Top'.conflict_list = {}
                ELSE Top'.pc = "return" /\ Top'.res = 1
        /\ Fatal =>
            /\ ops' = ops /\ fs' = fs /\ info' = info /\ last'.op = "return"
            /\ \/ Fatal' /\ Len(stack') = Len(stack) - 1
               \/ pc' = "done" /\ raised' = "" /\ status' = 1
    ]_vars

----------------------------------------------------------------------------
\* C14: the engine never calls an accessor (exists, isdir, getsize, getmtime,
\* haswrite) on a StatHelper whose probe was refused or found nothing: such a
\* call reads the attribute that __init__ left unset and raises
\* AttributeError, so no run ends with one.
C14_AccessorsGuarded ==
    /\ raised # "AttributeError"
    /\ last.op = "conflict" /\ args.conflictmode # 0 => last.d.state = "ok"
    /\ last.op = "file" => last.d.state # "denied"

----------------------------------------------------------------------------
\* The destination entry that mirrors a source entry
DestOf(p) == dest_path \o SubSeq(p, 2, Len(p))

Below(root) == {p \in DOMAIN fs : IsPrefix(root, p) /\ p # root}

\* C15: after a real run without depth limit, in conflict mode 2 (delete) and
\* copy mode 2, on a tree without read-only or unreadable entries, that
\* returned status 0, the destination mirrors the source: every source folder
\* is a destination folder, every source file is a destination file of the
\* same size and mtime, the destination holds no name the source does not;
\* so a second run would copy no file and find no conflict.
C15_MirrorPostcondition ==
    (/\ Returned /\ WalkReturned /\ status = 0 /\ NoHindrance
     /\ ~args.simulate /\ args.depth = {} /\ args.conflictmode = 2 /\ args.copymode = 2) =>
        /\ \A p \in Below(source_path) :
            /\ DestOf(p) \in DOMAIN fs
            /\ fs[DestOf(p)].kind = fs[p].kind
            /\ fs[p].kind = "file" =>
                /\ fs[DestOf(p)].size = fs[p].size /\ fs[DestOf(p)].mtime = fs[p].mtime
                /\ copy_decision(StatHelper(fs, p), StatHelper(fs, DestOf(p)), 2) = "skip"
        /\ \A q \in Below(dest_path) : SourceOf(q) \in DOMAIN fs

====
